---------------------------- MODULE Spec2Model ----------------------------
(***************************************************************************)
(* Model of the eww daemon's App (src/src/app.rs): the command dispatcher  *)
(* handle_command and the window / script-variable bookkeeping it drives.  *)
(*                                                                         *)
(* The App value is modelled as a record `a` that the operators thread     *)
(* through, exactly as the Rust methods thread `&mut self`:                *)
(*   a.eww_config      App::eww_config (an index into Configs)             *)
(*   a.open_windows    App::open_windows : WindowName -> EwwWindow         *)
(*   a.windows         EwwState's per-window reference bookkeeping         *)
(*   a.variables_state EwwState's variable values                         *)
(*   a.handlers        variables the ScriptVarHandler currently runs       *)
(*   a.leaked          native gtk windows created, shown and never closed, *)
(*                     per window name                                     *)
(*   a.css             text loaded into App::css_provider                  *)
(*   a.exit            process shutdown signalled                          *)
(*   a.log             instructions issued while handling one command      *)
(*   a.depth           nesting depth of handle_command                     *)
(*   a.built           the EwwWindow initialize_window returned last       *)
(* The state variables are the fields that outlive a command, and pc, the   *)
(* dispatcher's position.  The log and the depth live for one command: the *)
(* properties of a command are stated over handle_command(Begin, event),   *)
(* the App the handler leaves behind when started in the current state.    *)
(***************************************************************************)
EXTENDS Integers, Sequences, FiniteSets, TLC

VARIABLES eww_config, open_windows, windows, variables_state, handlers,
          leaked, css, exit, pc

vars == <<eww_config, open_windows, windows, variables_state, handlers,
          leaked, css, exit, pc>>

-----------------------------------------------------------------------------
(* Bounds of the model. *)

\* most native windows per name that an open may leave behind unclosed
MaxLeak == 1
\* longest list of (variable, value) pairs in one UpdateVars command
MaxVars == 2
\* longest list of window names in one OpenMany command
MaxMany == 2
\* most collaborator failures (widget build, window initialization) injected
\* into one command
MaxFailures == 1

WindowNames == {"A", "B"}
VarNames == {"x", "y"}
\* values an UpdateVars command may carry; every variable starts at InitialValue
Values == {"new"}
\* stylesheet texts the scss file may hold; the daemon starts with InitialCss
CssTexts == {"css2"}

InitialValue == "initial"
InitialCss == "css1"

\* the outcome of the fallible collaborators inside one open_window call
Outcomes == {"ok", "build_err", "init_err"}

\* pos / size / anchor as given on the command line: all absent or all given
NoOverride == [anchor |-> "None", pos |-> "None", size |-> "None"]
GivenOverride == [anchor |-> "a1", pos |-> "p1", size |-> "s1"]
Overrides == {NoOverride, GivenOverride}

-----------------------------------------------------------------------------
(* config::EwwConfig values that the configuration file may hold. *)

DefaultGeometry == [anchor |-> "a0", pos |-> "p0", size |-> "s0"]

\* window definitions of a configuration: name -> variables its widget tree uses
ConfigWindows(c) ==
    CASE c = "cfg1" -> [w \in {"A", "B"} |-> IF w = "A" THEN {"x"} ELSE {"x", "y"}]
      [] c = "cfg2" -> [w \in {"A"} |-> {"x", "y"}]
      [] c = "cfg3" -> [w \in {"A", "B"} |-> IF w = "A" THEN {"y"} ELSE {"x"}]

\* script-var definitions of a configuration
ConfigScriptVars(c) ==
    CASE c = "cfg1" -> {"x", "y"}
      [] c = "cfg2" -> {"y"}
      [] c = "cfg3" -> {"x", "y"}

Configs == {"cfg1", "cfg2", "cfg3"}


-----------------------------------------------------------------------------
(* Small helpers over functions and sequences. *)

Remove(f, k) == [j \in DOMAIN f \ {k} |-> f[j]]

Insert(f, k, val) == [j \in DOMAIN f \cup {k} |-> IF j = k THEN val ELSE f[j]]

\* no EwwWindow
NoWindow == [gtk_window |-> FALSE]

\* the map with no keys
EmptyMap == [j \in {} |-> {}]

\* the order in which a set of variable names is walked
VarOrder == <<"x", "y">>

SeqOfVars(S) == SelectSeq(VarOrder, LAMBDA v : v \in S)

\* all orders in which a set of window names can be iterated
Orders(S) ==
    {o \in [1..Cardinality(S) -> S] : \A i, j \in DOMAIN o : i # j => o[i] # o[j]}

\* one instruction issued to a collaborator, or one step of the handler
Ev(op, arg, info) == [op |-> op, arg |-> arg, info |-> info]

Emit(a, op, arg, info) == [a EXCEPT !.log = Append(@, Ev(op, arg, info))]

-----------------------------------------------------------------------------
(* config::EwwConfig accessors used by App. *)

\* EwwConfig::get_window: Err for a name the configuration does not define
has_window(c, window_name) == window_name \in DOMAIN ConfigWindows(c)

get_window(c, window_name) ==
    [widget |-> ConfigWindows(c)[window_name], geometry |-> DefaultGeometry]

\* EwwConfig::get_script_var(var).ok(): Some only for a defined script-var
has_script_var(c, var) == var \in ConfigScriptVars(c)

\* EwwWindowGeometry::override_if_given: a given field replaces the defined one
override_if_given(geometry, anchor, pos, size) ==
    [anchor |-> IF anchor = "None" THEN geometry.anchor ELSE anchor,
     pos    |-> IF pos = "None" THEN geometry.pos ELSE pos,
     size   |-> IF size = "None" THEN geometry.size ELSE size]

-----------------------------------------------------------------------------
(* eww_state::EwwState, the variable store. *)

\* EwwState::vars_referenced_in: empty for a window without bookkeeping
vars_referenced_in(a, window_name) ==
    IF window_name \in DOMAIN a.windows THEN a.windows[window_name] ELSE {}

\* EwwState::clear_window_state
clear_window_state(a, window_name) ==
    Emit([a EXCEPT !.windows = Remove(@, window_name)], "clear", window_name, "")

\* EwwState::clear_all_window_states
clear_all_window_states(a) ==
    Emit([a EXCEPT !.windows = EmptyMap], "clear_all", "", "")

\* EwwState::update_variable: NotFound unless some window references the name
update_variable(a, fieldname, value) ==
    IF \E w \in DOMAIN a.windows : fieldname \in a.windows[w]
    THEN [app |-> Emit([a EXCEPT !.variables_state[fieldname] = value],
                       "set", fieldname, value),
          ok |-> TRUE]
    ELSE [app |-> a, ok |-> FALSE]

\* widgets::widget_use_to_gtk_widget: on success the window's reference set is
\* recorded in the store; a build failure records nothing
widget_use_to_gtk_widget(a, window_name, widget, outcome) ==
    IF outcome = "build_err"
    THEN [app |-> a, ok |-> FALSE]
    ELSE [app |-> [a EXCEPT !.windows = Insert(@, window_name, widget)], ok |-> TRUE]

-----------------------------------------------------------------------------
(* script_var_handler::ScriptVarHandlerHandle, the producer subsystem. *)

\* ScriptVarHandlerHandle::add; info records whether the variable already ran
add(a, var) ==
    Emit([a EXCEPT !.handlers = @ \cup {var}], "add", var, var \in a.handlers)

\* ScriptVarHandlerHandle::stop_for_variable
stop_for_variable(a, var) ==
    Emit([a EXCEPT !.handlers = @ \ {var}], "stop", var, var \in a.handlers)

\* ScriptVarHandlerHandle::stop_all
stop_all(a) ==
    Emit([a EXCEPT !.handlers = {}], "stop_all", "", "")

-----------------------------------------------------------------------------
(* App: the variable-usage queries. *)

\* App::get_currently_used_variables
get_currently_used_variables(a) ==
    UNION {vars_referenced_in(a, w) : w \in DOMAIN a.open_windows}

\* currently_used_variables that walks the reference sets of the store instead
\* of the open windows
currently_used_variables_of_store(a) ==
    [v \in UNION {a.windows[w] : w \in DOMAIN a.windows} |->
        {w \in DOMAIN a.windows : v \in a.windows[w]}]

\* App::currently_used_variables: each variable referenced in an open window,
\* mapped to the open windows it is used in
currently_used_variables(a) ==
    [v \in get_currently_used_variables(a) |->
        {w \in DOMAIN a.open_windows : v \in vars_referenced_in(a, w)}]

\* variables_only_used_in without the test that the window is the only user
variables_used_in_window(a, window) ==
    {v \in DOMAIN currently_used_variables(a) :
        window \in currently_used_variables(a)[v]}

\* App::variables_only_used_in
variables_only_used_in(a, window) ==
    {v \in DOMAIN currently_used_variables(a) :
        /\ Cardinality(currently_used_variables(a)[v]) = 1
        /\ window \in currently_used_variables(a)[v]}

-----------------------------------------------------------------------------
(* Results.  A fallible method returns [app, ok]: the App it leaves behind and *)
(* whether it returned Ok.                                                     *)

Ok(a) == [app |-> a, ok |-> TRUE]

Err(a) == [app |-> a, ok |-> FALSE]

\* the `?` operator: an Err result returns at once, an Ok result continues
Try(r, Continue(_)) == IF r.ok THEN Continue(r.app) ELSE Err(r.app)

-----------------------------------------------------------------------------
(* Native windows. *)

\* EwwWindow::close: gtk_window.close() on the handle the instance holds
close(a, window_name) == Emit(a, "close", window_name, "")

\* number of native windows of a name that are created and not closed
live_handles(a, window_name) ==
    a.leaked[window_name]
    + (IF window_name \in DOMAIN a.open_windows /\ a.open_windows[window_name].gtk_window
       THEN 1 ELSE 0)

\* initialize_window: the gtk window is created and shown first; every later
\* backend call may fail, and the error return neither closes nor registers it.
\* The stored definition carries the gtk default size, not the requested one.
\* An Ok result registers the EwwWindow under a.built for the caller to insert.
initialize_window(a, window_name, window_def, outcome) ==
    IF outcome = "init_err"
    THEN Err([Emit(a, "create", window_name, "") EXCEPT !.leaked[window_name] = @ + 1])
    ELSE Ok([Emit(a, "create", window_name, "") EXCEPT !.built =
                 [definition |-> [window_def EXCEPT !.geometry.size = "px700"],
                  gtk_window |-> TRUE]])

-----------------------------------------------------------------------------
(* App: closing and opening windows. *)

RECURSIVE stop_each(_, _)
\* the loop of close_window over the variables only used in the window
stop_each(a, unused) ==
    IF unused = <<>> THEN a
    ELSE stop_each(stop_for_variable(a, Head(unused)), Tail(unused))

\* close_window after its loop: remove the entry or fail, close, clear
close_window_remove(a, window_name) ==
    IF window_name \notin DOMAIN a.open_windows
    THEN Err(a)
    ELSE Ok(clear_window_state(
                close(Emit([a EXCEPT !.open_windows = Remove(@, window_name)],
                           "remove", window_name, ""),
                      window_name),
                window_name))

\* close_window without its loop over the variables only used in the window
close_window_no_stop(a, window_name) == close_window_remove(a, window_name)

\* close_window with that loop run after the entry has been removed
close_window_remove_first(a, window_name) ==
    IF window_name \notin DOMAIN a.open_windows
    THEN Err(a)
    ELSE Ok(stop_each(close_window_remove(a, window_name).app,
                      SeqOfVars(variables_only_used_in(a, window_name))))

\* App::close_window
close_window(a, window_name) ==
    close_window_remove(
        stop_each(a, SeqOfVars(variables_only_used_in(a, window_name))), window_name)

RECURSIVE add_each(_, _)
\* the loop of open_window over the newly used script-vars
add_each(a, newly_used) ==
    IF newly_used = <<>> THEN a
    ELSE add_each(add(a, Head(newly_used)), Tail(newly_used))

\* the window definition open_window builds from: the configuration's, with the
\* given geometry overrides
overridden_def(c, window_name, ov) ==
    [get_window(c, window_name) EXCEPT !.geometry =
         override_if_given(@, ov.anchor, ov.pos, ov.size)]

\* the end of open_window: start the script-vars that only the new window uses
open_window_add(a, window_name) ==
    add_each(a, SeqOfVars({v \in variables_only_used_in(a, window_name) :
                             has_script_var(a.eww_config, v)}))

\* open_window from the insert on: register the window, then start script-vars
open_window_insert(a, window_name) ==
    open_window_add(Emit([a EXCEPT !.open_windows = Insert(@, window_name, a.built)],
                         "insert", window_name, ""),
                    window_name)

\* open_window after the existing window of the name has been closed
open_window_build(a, window_name, ov, outcome) ==
    IF ~has_window(a.eww_config, window_name)
    THEN Err(a)
    ELSE Try(widget_use_to_gtk_widget(
                 a, window_name, overridden_def(a.eww_config, window_name, ov).widget,
                 outcome),
             LAMBDA b :
                 Try(initialize_window(
                         b, window_name, overridden_def(b.eww_config, window_name, ov),
                         outcome),
                     LAMBDA c : Ok(open_window_insert(c, window_name))))

\* open_window that closes the existing window only when the new one can be
\* built, and otherwise leaves it in place
open_window_keeping_old(a, window_name, ov, outcome) ==
    IF has_window(a.eww_config, window_name) /\ outcome = "ok"
    THEN open_window_build(close_window(a, window_name).app, window_name, ov, outcome)
    ELSE Err(a)

\* open_window that drops the geometry overrides it is given
open_window_without_overrides(a, window_name, ov, outcome) ==
    open_window_build(close_window(a, window_name).app, window_name, NoOverride, outcome)

\* App::open_window
open_window(a, window_name, ov, outcome) ==
    open_window_build(close_window(a, window_name).app, window_name, ov, outcome)

RECURSIVE reopen_each(_, _, _)
\* the loop of load_config over the windows that were open; the first failing
\* open_window returns from load_config
reopen_each(a, order, outcomes) ==
    IF order = <<>> THEN Ok(a)
    ELSE Try(open_window(
                 close([a EXCEPT !.open_windows[Head(order)].gtk_window = FALSE],
                       Head(order)),
                 Head(order), NoOverride, outcomes[Head(order)]),
             LAMBDA b : reopen_each(b, Tail(order), outcomes))

\* load_config that leaves the producers of the old configuration running
load_config_without_stop_all(a, config, order, outcomes) ==
    reopen_each(clear_all_window_states([a EXCEPT !.eww_config = config]),
                order, outcomes)

\* App::load_config
load_config(a, config, order, outcomes) ==
    reopen_each(
        clear_all_window_states([stop_all(a) EXCEPT !.eww_config = config]),
        order, outcomes)

\* App::load_css
load_css(a, text) == [a EXCEPT !.css = text]

RECURSIVE drain(_, _)
\* open_windows.drain().for_each(|(_, w)| w.close())
drain(a, order) ==
    IF order = <<>> THEN a
    ELSE drain(close([a EXCEPT !.open_windows = Remove(@, Head(order))], Head(order)),
               Tail(order))

\* stop_application that closes the windows before it stops the producers
stop_application_closing_first(a, order) ==
    Emit(stop_all(drain(a, order)), "glib_stop_main", "", "")

\* App::stop_application
stop_application(a, order) ==
    Emit(drain(stop_all(a), order), "glib_stop_main", "", "")

\* App::update_state
update_state(a, fieldname, value) == update_variable(a, fieldname, value)

-----------------------------------------------------------------------------
(* The command dispatcher. *)

\* DaemonResponseSender::send: Err when the receiving end has been dropped
send(a, sender, kind, text) ==
    IF sender
    THEN Ok(Emit(a, "send", kind, text))
    ELSE Err(Emit(a, "send_failed", kind, text))

\* respond_with_error that answers only an Err and stays silent on Ok
respond_with_error_only_on_err(sender, result) ==
    IF result.ok THEN Ok(result.app)
    ELSE send(result.app, sender, "Failure", "error")

\* respond_with_error
respond_with_error(sender, result) ==
    IF result.ok THEN send(result.app, sender, "Success", "")
    ELSE send(result.app, sender, "Failure", "error")

\* print_result_err! that unwinds on an Err instead of logging it
print_result_err_unwinding(result, type) ==
    IF result.ok
    THEN [Emit(result.app, "return", type, "Ok") EXCEPT !.depth = @ - 1]
    ELSE Emit(result.app, "panic", type, "Err")

\* print_result_err!: an Err is logged; handle_command returns either way
print_result_err(result, type) ==
    [Emit(result.app, "return", type, IF result.ok THEN "Ok" ELSE "Err")
       EXCEPT !.depth = @ - 1]

RECURSIVE update_each_skipping_failures(_, _)
\* UpdateVars that goes on to the next pair after a failing update_state
update_each_skipping_failures(a, mappings) ==
    IF mappings = <<>> THEN Ok(a)
    ELSE update_each_skipping_failures(
             update_state(a, Head(mappings)[1], Head(mappings)[2]).app, Tail(mappings))

RECURSIVE update_each(_, _)
\* UpdateVars: `?` leaves the loop at the first failing update_state
update_each(a, mappings) ==
    IF mappings = <<>> THEN Ok(a)
    ELSE Try(update_state(a, Head(mappings)[1], Head(mappings)[2]),
             LAMBDA b : update_each(b, Tail(mappings)))

RECURSIVE close_each(_, _)
\* CloseAll: close_window for every entry of a clone of open_windows
close_each(a, order) ==
    IF order = <<>> THEN Ok(a)
    ELSE Try(close_window(a, Head(order)), LAMBDA b : close_each(b, Tail(order)))

RECURSIVE open_each(_, _, _)
\* OpenMany: collect::<Result<()>>() pulls open_window results from the lazy
\* map until the first Err and pulls no more
open_each(a, names, outcomes) ==
    IF names = <<>> THEN Ok(a)
    ELSE Try(open_window(a, Head(names), NoOverride, Head(outcomes)),
             LAMBDA b : open_each(b, Tail(names), Tail(outcomes)))

\* PrintWindows that stars the windows the store holds a reference set for
print_windows_from_store(a) ==
    [w \in DOMAIN ConfigWindows(a.eww_config) |-> w \in DOMAIN a.windows]

\* PrintWindows output: every window name of the configuration, starred when open
print_windows(a) ==
    [w \in DOMAIN ConfigWindows(a.eww_config) |-> w \in DOMAIN a.open_windows]

\* reload_errors that forgets to push the stylesheet's parse error
reload_errors_config_only(event) ==
    IF event.config_result = "ParseError" THEN <<"config_error">> ELSE <<>>

\* ReloadConfigAndCss: the texts of the parse errors, in the order pushed
reload_errors(event) ==
    (IF event.config_result = "ParseError" THEN <<"config_error">> ELSE <<>>)
    \o (IF event.css_result = "ParseError" THEN <<"css_error">> ELSE <<>>)

\* ReloadConfigAndCss: the response sent after both files have been handled
reload_respond(a, event) ==
    IF reload_errors(event) = <<>> THEN send(a, event.sender, "Success", "")
    ELSE send(a, event.sender, "Failure", reload_errors(event))

\* handle_command on entry
enter(a, event) == [Emit(a, "handle", event.type, "") EXCEPT !.depth = @ + 1]

RECURSIVE handle_command(_, _)
\* the match of handle_command, inside its try block
handle_event(a, event) ==
    CASE event.type = "NoOp" -> Ok(a)
      [] event.type = "UpdateVars" -> update_each(a, event.mappings)
      [] event.type = "ReloadConfigAndCss" ->
           reload_respond(
               IF event.css_result = "ParseError"
               THEN (IF event.config_result = "ParseError" THEN a
                     ELSE handle_command(a, [type |-> "UpdateConfig",
                                             config |-> event.config_result,
                                             order |-> event.order,
                                             outcomes |-> event.outcomes]))
               ELSE handle_command(
                        IF event.config_result = "ParseError" THEN a
                        ELSE handle_command(a, [type |-> "UpdateConfig",
                                                config |-> event.config_result,
                                                order |-> event.order,
                                                outcomes |-> event.outcomes]),
                        [type |-> "UpdateCss", css |-> event.css_result]),
               event)
      [] event.type = "UpdateConfig" ->
           load_config(a, event.config, event.order, event.outcomes)
      [] event.type = "UpdateCss" -> Ok(load_css(a, event.css))
      [] event.type = "KillServer" ->
           Ok([Emit(stop_application(a, event.order), "send_exit", "", "")
                 EXCEPT !.exit = TRUE])
      [] event.type = "CloseAll" -> close_each(a, event.order)
      [] event.type = "OpenMany" ->
           respond_with_error(event.sender, open_each(a, event.windows, event.outcomes))
      [] event.type = "OpenWindow" ->
           respond_with_error(
               event.sender,
               open_window(a, event.window_name, event.ov, event.outcome))
      [] event.type = "CloseWindow" ->
           respond_with_error(event.sender, close_window(a, event.window_name))
      [] event.type = "PrintState" ->
           send(a, event.sender, "Success", a.variables_state)
      [] event.type = "PrintWindows" ->
           send(a, event.sender, "Success", print_windows(a))
      [] event.type = "PrintDebug" ->
           send(a, event.sender, "Success",
                <<a.variables_state, a.windows, a.eww_config>>)

\* App::handle_command
handle_command(a, event) ==
    print_result_err(handle_event(enter(a, event), event), event.type)

-----------------------------------------------------------------------------
(* The state machine: the dispatcher takes one command at a time. *)

\* the App as the handler finds it, with an empty instruction log
Begin ==
    [eww_config |-> eww_config, open_windows |-> open_windows, windows |-> windows,
     variables_state |-> variables_state, handlers |-> handlers, leaked |-> leaked,
     css |-> css, exit |-> exit, log |-> <<>>, depth |-> 0, built |-> NoWindow]

\* the App at the end of a command, as a later command finds it
Settled(a) == [a EXCEPT !.log = <<>>, !.built = NoWindow]

\* the result the outermost handle_command logged before it returned
Returned(a) == a.log[Len(a.log)].info

\* the dispatcher loop, when idle, hands `event` to handle_command and gets
\* control back; a signalled exit ends the loop
Dispatch(event) ==
    /\ ~exit
    /\ \E a \in {handle_command(Begin, event)} :
           /\ \A w \in WindowNames : a.leaked[w] <= MaxLeak
           /\ eww_config' = a.eww_config
           /\ open_windows' = a.open_windows
           /\ windows' = a.windows
           /\ variables_state' = a.variables_state
           /\ handlers' = a.handlers
           /\ leaked' = a.leaked
           /\ css' = a.css
           /\ exit' = a.exit
           /\ pc' = (IF a.depth = 0 THEN "Idle" ELSE "Processing")

\* non-empty lists of at most n elements of S
ListsUpTo(S, n) == UNION {[1..k -> S] : k \in 1..n}

\* outcome assignments over the keys K with at most MaxFailures failures
OutcomesOver(K) ==
    {f \in [K -> Outcomes] : Cardinality({k \in K : f[k] # "ok"}) <= MaxFailures}

\* the commands a client or a producer can submit in the current state,
\* each with the environment's choices for the collaborators it calls
Events(type) ==
    CASE type = "NoOp" -> {[type |-> "NoOp"]}
      [] type = "UpdateVars" ->
           {[type |-> "UpdateVars", mappings |-> m] :
               m \in ListsUpTo(VarNames \X Values, MaxVars)}
      [] type = "ReloadConfigAndCss" ->
           UNION {{[type |-> "ReloadConfigAndCss", config_result |-> r[1],
                    css_result |-> r[2], sender |-> r[3], order |-> p[1],
                    outcomes |-> p[2]] :
                     p \in (IF r[1] = "ParseError" THEN {<<<<>>, EmptyMap>>}
                            ELSE Orders(DOMAIN open_windows)
                                 \X OutcomesOver(DOMAIN open_windows))} :
                  r \in (Configs \cup {"ParseError"}) \X (CssTexts \cup {"ParseError"})
                        \X BOOLEAN}
      [] type = "UpdateConfig" ->
           {[type |-> "UpdateConfig", config |-> r[1], order |-> r[2], outcomes |-> r[3]] :
               r \in Configs \X Orders(DOMAIN open_windows)
                     \X OutcomesOver(DOMAIN open_windows)}
      [] type = "UpdateCss" -> {[type |-> "UpdateCss", css |-> t] : t \in CssTexts}
      [] type = "KillServer" ->
           {[type |-> "KillServer", order |-> o] : o \in Orders(DOMAIN open_windows)}
      [] type = "CloseAll" ->
           {[type |-> "CloseAll", order |-> o] : o \in Orders(DOMAIN open_windows)}
      [] type = "OpenMany" ->
           UNION {{[type |-> "OpenMany", windows |-> r[1], sender |-> r[2],
                    outcomes |-> o] : o \in OutcomesOver(DOMAIN r[1])} :
                  r \in ListsUpTo(WindowNames, MaxMany) \X BOOLEAN}
      [] type = "OpenWindow" ->
           {[type |-> "OpenWindow", window_name |-> r[1], ov |-> r[2], outcome |-> r[3],
             sender |-> r[4]] :
               r \in WindowNames \X Overrides \X Outcomes \X BOOLEAN}
      [] type = "CloseWindow" ->
           {[type |-> "CloseWindow", window_name |-> r[1], sender |-> r[2]] :
               r \in WindowNames \X BOOLEAN}
      [] type \in {"PrintState", "PrintWindows", "PrintDebug"} ->
           {[type |-> type, sender |-> b] : b \in BOOLEAN}

Init ==
    /\ eww_config = "cfg1"
    /\ open_windows = EmptyMap
    /\ windows = EmptyMap
    /\ variables_state = [v \in VarNames |-> InitialValue]
    /\ handlers = {}
    /\ leaked = [w \in WindowNames |-> 0]
    /\ css = InitialCss
    /\ exit = FALSE
    /\ pc = "Idle"

NoOp ==
    /\ pc = "Idle"
    /\ \E event \in Events("NoOp") : Dispatch(event)

UpdateVars ==
    /\ pc = "Idle"
    /\ \E event \in Events("UpdateVars") : Dispatch(event)

ReloadConfigAndCss ==
    /\ pc = "Idle"
    /\ \E event \in Events("ReloadConfigAndCss") : Dispatch(event)

UpdateConfig ==
    /\ pc = "Idle"
    /\ \E event \in Events("UpdateConfig") : Dispatch(event)

UpdateCss ==
    /\ pc = "Idle"
    /\ \E event \in Events("UpdateCss") : Dispatch(event)

KillServer ==
    /\ pc = "Idle"
    /\ \E event \in Events("KillServer") : Dispatch(event)

CloseAll ==
    /\ pc = "Idle"
    /\ \E event \in Events("CloseAll") : Dispatch(event)

OpenMany ==
    /\ pc = "Idle"
    /\ \E event \in Events("OpenMany") : Dispatch(event)

OpenWindow ==
    /\ pc = "Idle"
    /\ \E event \in Events("OpenWindow") : Dispatch(event)

CloseWindow ==
    /\ pc = "Idle"
    /\ \E event \in Events("CloseWindow") : Dispatch(event)

PrintState ==
    /\ pc = "Idle"
    /\ \E event \in Events("PrintState") : Dispatch(event)

PrintWindows ==
    /\ pc = "Idle"
    /\ \E event \in Events("PrintWindows") : Dispatch(event)

PrintDebug ==
    /\ pc = "Idle"
    /\ \E event \in Events("PrintDebug") : Dispatch(event)

Next ==
    \/ NoOp
    \/ UpdateVars
    \/ ReloadConfigAndCss
    \/ UpdateConfig
    \/ UpdateCss
    \/ KillServer
    \/ CloseAll
    \/ OpenMany
    \/ OpenWindow
    \/ CloseWindow
    \/ PrintState
    \/ PrintWindows
    \/ PrintDebug

Spec == Init /\ [][Next]_vars

-----------------------------------------------------------------------------
(* Vocabulary of the properties. *)

\* every command the dispatcher can be handed in the current state
AllEvents ==
    UNION {Events(type) : type \in
             {"NoOp", "UpdateVars", "ReloadConfigAndCss", "UpdateConfig", "UpdateCss",
              "KillServer", "CloseAll", "OpenMany", "OpenWindow", "CloseWindow",
              "PrintState", "PrintWindows", "PrintDebug"}}

\* the variables the widget tree of the open window w uses
WidgetVars(a, w) == a.open_windows[w].definition.widget

\* the script-vars used by the widget tree of at least one open window
ReferencedScriptVars(a) ==
    {v \in VarNames : /\ has_script_var(a.eww_config, v)
                      /\ \E w \in DOMAIN a.open_windows : v \in WidgetVars(a, w)}

\* the App that handle_command leaves behind when handed `event` now
After(event) == handle_command(Begin, event)

\* positions of the log entries with the given op
AtOp(lg, op) == {i \in DOMAIN lg : lg[i].op = op}

\* the positions of the log at which a response was sent or a send failed
Responses(lg) == AtOp(lg, "send") \cup AtOp(lg, "send_failed")

\* the command answered (or tried to answer) Success / Failure
Answered(a, kind) == \E i \in Responses(a.log) : a.log[i].arg = kind

\* positions of the log entries with the given op and arg
At(lg, op, arg) == {i \in DOMAIN lg : lg[i].op = op /\ lg[i].arg = arg}

-----------------------------------------------------------------------------
(* C1 *)

\* C1: after every handled command the variables with a running producer are
\* exactly the script-vars referenced by at least one open window.
C1_SubscriptionsMatchOpenWindows ==
    pc = "Idle" => handlers = ReferencedScriptVars(Begin)

\* the same with "referenced" read off the store's per-window bookkeeping
C1_SubscriptionsMatchBookkeeping ==
    pc = "Idle" =>
        handlers = {v \in VarNames :
                      /\ has_script_var(eww_config, v)
                      /\ \E w \in DOMAIN open_windows : v \in vars_referenced_in(Begin, w)}

-----------------------------------------------------------------------------
(* C2 *)

\* C2: no command ever issues a start (add) for a variable whose producer is
\* already running, and a successful reopen of an open window W issues the stop
\* of each running variable used only by W before it issues its start again.
C2_NoStartWhileActive ==
    \A event \in AllEvents : \A a \in {After(event)} :
        /\ \A i \in AtOp(a.log, "add") : a.log[i].info = FALSE
        /\ (/\ event.type = "OpenWindow"
            /\ event.window_name \in DOMAIN open_windows
            /\ event.window_name \in DOMAIN a.open_windows)
           => \A v \in variables_only_used_in(Begin, event.window_name) \cap handlers :
                  v \in a.handlers =>
                      \E i \in At(a.log, "stop", v), j \in At(a.log, "add", v) : i < j

\* an open window W with a running variable of its own is reopened: the variable
\* is stopped and then started again
C2_Witness ==
    \E event \in Events("OpenWindow") : \E a \in {After(event)} :
        /\ event.window_name \in DOMAIN open_windows
        /\ \E v \in variables_only_used_in(Begin, event.window_name) \cap handlers :
               \E i \in At(a.log, "stop", v), j \in At(a.log, "add", v) : i < j

-----------------------------------------------------------------------------
(* C3, C4 *)

\* the window w can be rebuilt by an UpdateConfig event: the new configuration
\* defines it and neither its widget build nor its initialization fails
Rebuildable(event, w) ==
    has_window(event.config, w) /\ event.outcomes[w] = "ok"

\* in the App a, the window w is open, built from the configuration c, with a
\* live native window
RebuiltFrom(a, w, c) ==
    /\ w \in DOMAIN a.open_windows
    /\ a.open_windows[w].definition.widget = ConfigWindows(c)[w]
    /\ a.open_windows[w].gtk_window
    /\ vars_referenced_in(a, w) = ConfigWindows(c)[w]

\* C3: when every open window can be rebuilt against the new configuration,
\* UpdateConfig leaves exactly the same window names open, each rebuilt from the
\* new configuration, and the running producers are exactly the script-vars the
\* open windows reference.
C3_ReloadPreservesOpenSet ==
    \A event \in Events("UpdateConfig") :
        (\A w \in DOMAIN open_windows : Rebuildable(event, w))
        => \A a \in {After(event)} :
               /\ a.eww_config = event.config
               /\ DOMAIN a.open_windows = DOMAIN open_windows
               /\ \A w \in DOMAIN open_windows : RebuiltFrom(a, w, event.config)
               /\ a.handlers = ReferencedScriptVars(a)
               /\ Returned(a) = "Ok"

\* two windows are open and an UpdateConfig with a configuration that changes
\* their definitions rebuilds both
C3_Witness ==
    /\ DOMAIN open_windows = {"A", "B"}
    /\ \E event \in Events("UpdateConfig") : \E a \in {After(event)} :
           /\ \A w \in DOMAIN open_windows : Rebuildable(event, w)
           /\ event.config # eww_config
           /\ \A w \in DOMAIN open_windows :
                  a.open_windows[w].definition.widget
                      # open_windows[w].definition.widget
           /\ a.handlers # handlers

\* C4: in an UpdateConfig, every open window whose own rebuild succeeds is
\* reopened against the new configuration with its script-vars running, whatever
\* happens to the other windows and whatever the iteration order.
C4_ReopenFailureDoesNotBlockOthers ==
    [][\A event \in Events("UpdateConfig") :
          Dispatch(event)
          => \A a \in {After(event)} : \A w \in DOMAIN open_windows :
                 Rebuildable(event, w)
                 => /\ RebuiltFrom(a, w, event.config)
                    /\ {v \in ConfigWindows(event.config)[w] :
                           has_script_var(event.config, v)} \subseteq a.handlers]_vars

-----------------------------------------------------------------------------
(* C5 *)

\* position i of an OpenMany list opens its window when handled on its own
Opens(event, i) ==
    has_window(eww_config, event.windows[i]) /\ event.outcomes[i] = "ok"

\* C5: OpenMany attempts every name of its list: a name whose own open succeeds
\* (and that no later position of the list names again) is open afterwards even
\* when an earlier name failed, and the response is Failure exactly when some
\* open failed.
C5_OpenManyAttemptsEveryName ==
    [][\A event \in Events("OpenMany") :
          Dispatch(event)
          => \A a \in {After(event)} :
                 /\ \A i \in DOMAIN event.windows :
                        (/\ Opens(event, i)
                         /\ \A j \in DOMAIN event.windows :
                                j > i => event.windows[j] # event.windows[i])
                        => event.windows[i] \in DOMAIN a.open_windows
                 /\ \A k \in Responses(a.log) :
                        a.log[k].arg = (IF \A i \in DOMAIN event.windows : Opens(event, i)
                                        THEN "Success" ELSE "Failure")]_vars

-----------------------------------------------------------------------------
(* C6 *)

\* an OpenWindow command whose collaborators do not fail
OpenOk(window_name, ov) ==
    [type |-> "OpenWindow", window_name |-> window_name, ov |-> ov, outcome |-> "ok",
     sender |-> TRUE]

-----------------------------------------------------------------------------
(* C7 *)

\* C7: no window name ever has more than one native window that is created and
\* not closed.
C7_AtMostOneLiveHandle ==
    \A w \in WindowNames : live_handles(Begin, w) <= 1

-----------------------------------------------------------------------------
(* C8 *)

\* the open window W is the only open window whose widget tree uses v
OnlyOpenUser(W, v) ==
    /\ W \in DOMAIN open_windows
    /\ v \in WidgetVars(Begin, W)
    /\ \A w \in DOMAIN open_windows \ {W} : v \notin WidgetVars(Begin, w)

\* C8: once the only open window that references v has been closed, an
\* UpdateVars command containing v is rejected: the handler ends in Err without
\* setting v, starts no producer and leaves the open windows as they were.
C8_StaleUpdateRejected ==
    \A W \in WindowNames, v \in VarNames :
        OnlyOpenUser(W, v)
        => \A a1 \in {After([type |-> "CloseWindow", window_name |-> W, sender |-> TRUE])} :
               \A event \in Events("UpdateVars") :
                   (\E i \in DOMAIN event.mappings : event.mappings[i][1] = v)
                   => \A a2 \in {handle_command(Settled(a1), event)} :
                          /\ Returned(a2) = "Err"
                          /\ At(a2.log, "set", v) = {}
                          /\ AtOp(a2.log, "add") = {}
                          /\ a2.handlers = a1.handlers
                          /\ a2.open_windows = a1.open_windows

-----------------------------------------------------------------------------
(* C9 *)

\* the variables the store lists for the open window W and for no other open
\* window
ReferencedOnlyBy(W) ==
    {v \in vars_referenced_in(Begin, W) :
        \A w \in DOMAIN open_windows \ {W} : v \notin vars_referenced_in(Begin, w)}

\* the variables the store lists for some open window other than W
ReferencedByOther(W) ==
    UNION {vars_referenced_in(Begin, w) : w \in DOMAIN open_windows \ {W}}

-----------------------------------------------------------------------------
(* C10 *)

RECURSIVE NestingAt(_, _)
\* the number of handle_command activations open after the first i log entries
NestingAt(lg, i) ==
    IF i = 0 THEN 0
    ELSE NestingAt(lg, i - 1)
         + (IF lg[i].op = "handle" THEN 1 ELSE IF lg[i].op = "return" THEN -1 ELSE 0)

\* C10: whatever the command and whatever fails inside it, handle_command
\* returns to the dispatcher, which is idle again; handle_command is never
\* nested more than one level deep (ReloadConfigAndCss calling UpdateConfig or
\* UpdateCss).
C10_HandlerAlwaysReturns ==
    /\ pc = "Idle"
    /\ \A event \in AllEvents : \A a \in {After(event)} :
           /\ a.depth = 0
           /\ a.log[Len(a.log)].op = "return"
           /\ NestingAt(a.log, Len(a.log)) = 0
           /\ \A i \in DOMAIN a.log : NestingAt(a.log, i) <= 2
           /\ (event.type # "ReloadConfigAndCss")
              => \A i \in DOMAIN a.log : NestingAt(a.log, i) <= 1

\* a command has failed in each of the ways named (unknown window, build
\* failure, variable-store rejection, failed send) and a ReloadConfigAndCss whose
\* nested UpdateConfig fails is handled, with the dispatcher idle
C10_Witness ==
    /\ pc = "Idle"
    /\ \E event \in Events("OpenWindow") :
           ~has_window(eww_config, event.window_name) /\ Answered(After(event), "Failure")
    /\ \E event \in Events("OpenWindow") :
           /\ has_window(eww_config, event.window_name)
           /\ event.outcome = "build_err"
           /\ ~event.sender
           /\ Returned(After(event)) = "Err"
    /\ \E event \in Events("UpdateVars") : Returned(After(event)) = "Err"
    /\ \E event \in Events("ReloadConfigAndCss") :
           event.config_result = "ParseError" /\ Answered(After(event), "Failure")
    /\ \E event \in Events("ReloadConfigAndCss") : \E a \in {After(event)} :
           /\ \E i \in At(a.log, "return", "UpdateConfig") : a.log[i].info = "Err"
           /\ \E i \in DOMAIN a.log : NestingAt(a.log, i) = 2
    /\ open_windows # EmptyMap

-----------------------------------------------------------------------------
(* C11 *)

\* the commands that carry a DaemonResponseSender
WithSender ==
    {"ReloadConfigAndCss", "OpenMany", "OpenWindow", "CloseWindow", "PrintState",
     "PrintWindows", "PrintDebug"}

\* C11: handling a command that carries a sender sends exactly one response on
\* it (delivered when the receiving end is alive), whether the command succeeds
\* or fails; handling a command without a sender sends none.
C11_ExactlyOneResponse ==
    \A event \in AllEvents : \A a \in {After(event)} :
        IF event.type \in WithSender
        THEN /\ Cardinality(Responses(a.log)) = 1
             /\ event.sender => Cardinality(AtOp(a.log, "send")) = 1
        ELSE Responses(a.log) = {}

\* with a window open, a failing OpenMany, a failing CloseWindow and a reload
\* whose nested UpdateConfig fails are each answered once, with Failure for the
\* first two, and a successful OpenWindow is answered once with Success
C11_Witness ==
    /\ open_windows # EmptyMap
    /\ \E event \in Events("OpenMany") : \E a \in {After(event)} :
           /\ Len(event.windows) = 2
           /\ event.outcomes[1] # "ok"
           /\ Cardinality(Responses(a.log)) = 1
           /\ Answered(a, "Failure")
    /\ \E event \in Events("CloseWindow") : \E a \in {After(event)} :
           /\ event.window_name \notin DOMAIN open_windows
           /\ Cardinality(Responses(a.log)) = 1
           /\ Answered(a, "Failure")
    /\ \E event \in Events("OpenWindow") : \E a \in {After(event)} :
           /\ Cardinality(Responses(a.log)) = 1
           /\ Answered(a, "Success")
    /\ \E event \in Events("ReloadConfigAndCss") : \E a \in {After(event)} :
           /\ \E i \in At(a.log, "return", "UpdateConfig") : a.log[i].info = "Err"
           /\ Cardinality(Responses(a.log)) = 1

-----------------------------------------------------------------------------
(* C12 *)

\* the one response of a command, as [arg, info] of its log entry
Response(a) == CHOOSE e \in {a.log[i] : i \in Responses(a.log)} : TRUE

\* C12: ReloadConfigAndCss applies the configuration and the stylesheet
\* independently.  A parsed configuration is applied (UpdateConfig runs) also when
\* the stylesheet fails to parse; a parsed stylesheet is applied also when the
\* configuration fails to parse, and then the configuration, the open windows,
\* the reference sets and the producers are untouched.  The response is Failure
\* with the error texts joined (both when both fail) and Success("") only when
\* neither parse fails.
C12_ReloadAppliesIndependently ==
    \A event \in Events("ReloadConfigAndCss") : \A a \in {After(event)} :
        /\ (event.config_result # "ParseError")
           => /\ a.eww_config = event.config_result
              /\ At(a.log, "handle", "UpdateConfig") # {}
        /\ (event.config_result = "ParseError")
           => /\ a.eww_config = eww_config
              /\ a.open_windows = open_windows
              /\ a.windows = windows
              /\ a.handlers = handlers
              /\ At(a.log, "handle", "UpdateConfig") = {}
        /\ (event.css_result # "ParseError")
           => /\ a.css = event.css_result
              /\ At(a.log, "handle", "UpdateCss") # {}
        /\ (event.css_result = "ParseError")
           => /\ a.css = css
              /\ At(a.log, "handle", "UpdateCss") = {}
        /\ Cardinality(Responses(a.log)) = 1
        /\ Response(a).arg
             = (IF event.config_result # "ParseError" /\ event.css_result # "ParseError"
                THEN "Success" ELSE "Failure")
        /\ Response(a).info
             = (IF event.config_result = "ParseError"
                THEN (IF event.css_result = "ParseError"
                      THEN <<"config_error", "css_error">> ELSE <<"config_error">>)
                ELSE (IF event.css_result = "ParseError" THEN <<"css_error">> ELSE ""))

\* with windows open and producers running, a reload whose configuration fails
\* to parse still changes the stylesheet, and a reload whose stylesheet fails to
\* parse still changes the configuration
C12_Witness ==
    /\ open_windows # EmptyMap
    /\ handlers # {}
    /\ \E event \in Events("ReloadConfigAndCss") : \E a \in {After(event)} :
           /\ event.config_result = "ParseError"
           /\ event.css_result # "ParseError"
           /\ a.css # css
           /\ Answered(a, "Failure")
    /\ \E event \in Events("ReloadConfigAndCss") : \E a \in {After(event)} :
           /\ event.config_result # "ParseError"
           /\ event.css_result = "ParseError"
           /\ a.eww_config # eww_config
           /\ a.open_windows # open_windows
           /\ Response(a).info = <<"css_error">>

-----------------------------------------------------------------------------
(* C13 *)

\* the nested UpdateConfig of a reload ended in an Err
NestedUpdateConfigFailed(a) ==
    \E i \in At(a.log, "return", "UpdateConfig") : a.log[i].info = "Err"

\* C13: a failed reopen makes UpdateConfig end in an Err, and a
\* ReloadConfigAndCss whose configuration parsed but whose UpdateConfig ended in
\* that Err answers Failure, not Success("").
C13_ReopenFailureReported ==
    /\ \A event \in Events("UpdateConfig") : \A a \in {After(event)} :
           (\E w \in DOMAIN open_windows : ~Rebuildable(event, w))
           => Returned(a) = "Err"
    /\ \A event \in Events("ReloadConfigAndCss") : \A a \in {After(event)} :
           (event.config_result # "ParseError" /\ NestedUpdateConfigFailed(a))
           => /\ Answered(a, "Failure")
              /\ ~Answered(a, "Success")

-----------------------------------------------------------------------------
(* C14 *)

\* the store rejects a set of the variable of pair i: no reference set lists it
Rejected(event, i) ==
    \A w \in DOMAIN windows : event.mappings[i][1] \notin windows[w]

\* the pairs of an UpdateVars list before the first rejected one
BeforeFirstRejected(event) ==
    {i \in DOMAIN event.mappings : \A j \in 1..i : ~Rejected(event, j)}

\* the sets the store performed, in the order of the log
SetsOf(lg) == SelectSeq(lg, LAMBDA e : e.op = "set")

\* C14: UpdateVars sets the pairs in list order and stops at the first pair the
\* store rejects: the pairs before it are set, that pair and the pairs after it
\* are not, and nothing is sent.
C14_UpdateVarsStopsAtFirstFailure ==
    \A event \in Events("UpdateVars") : \A a \in {After(event)} :
        /\ SetsOf(a.log)
             = [i \in 1..Cardinality(BeforeFirstRejected(event)) |->
                   Ev("set", event.mappings[i][1], event.mappings[i][2])]
        /\ \A v \in VarNames :
               a.variables_state[v]
                 = (IF \E i \in BeforeFirstRejected(event) : event.mappings[i][1] = v
                    THEN event.mappings[
                             CHOOSE i \in BeforeFirstRejected(event) :
                                 /\ event.mappings[i][1] = v
                                 /\ \A j \in BeforeFirstRejected(event) :
                                        event.mappings[j][1] = v => j <= i][2]
                    ELSE variables_state[v])
        /\ Returned(a)
             = (IF BeforeFirstRejected(event) = DOMAIN event.mappings
                THEN "Ok" ELSE "Err")
        /\ Responses(a.log) = {}
        /\ a.handlers = handlers
        /\ a.open_windows = open_windows

\* the store knows one variable and not the other: a list with the known one
\* first sets it and stops at the second, and the list with the unknown one
\* first sets nothing although its second pair would have been accepted
C14_Witness ==
    /\ \E event \in Events("UpdateVars") : \E a \in {After(event)} :
           /\ Len(event.mappings) = 2
           /\ ~Rejected(event, 1) /\ Rejected(event, 2)
           /\ Len(SetsOf(a.log)) = 1
           /\ a.variables_state # variables_state
           /\ Returned(a) = "Err"
    /\ \E event \in Events("UpdateVars") : \E a \in {After(event)} :
           /\ Len(event.mappings) = 2
           /\ Rejected(event, 1) /\ ~Rejected(event, 2)
           /\ SetsOf(a.log) = <<>>
           /\ a.variables_state = variables_state
           /\ variables_state[event.mappings[2][1]] # event.mappings[2][2]

-----------------------------------------------------------------------------
(* C15 *)

-----------------------------------------------------------------------------
(* C16 *)

\* the open windows whose reference set lists v
OpenUsers(v) == {w \in DOMAIN open_windows : v \in vars_referenced_in(Begin, w)}

-----------------------------------------------------------------------------
(* C17 *)

\* the commands that only read
ReadOnly == {"NoOp", "PrintState", "PrintWindows", "PrintDebug"}

\* C17: NoOp, PrintState, PrintWindows and PrintDebug change neither the variable
\* store, the registry, the reference sets, the configuration nor the running
\* producers; the three Print commands answer Success, and the answer of
\* PrintWindows lists exactly the window names of the current configuration,
\* each marked open exactly when the registry holds it.
C17_ReadOnlyCommands ==
    \A type \in ReadOnly : \A event \in Events(type) : \A a \in {After(event)} :
        /\ a.variables_state = variables_state
        /\ a.open_windows = open_windows
        /\ a.windows = windows
        /\ a.eww_config = eww_config
        /\ a.handlers = handlers
        /\ a.leaked = leaked
        /\ a.css = css
        /\ a.exit = exit
        /\ (type = "NoOp") => Responses(a.log) = {}
        /\ (type # "NoOp")
           => /\ Cardinality(Responses(a.log)) = 1
              /\ Response(a).arg = "Success"
        /\ (type = "PrintWindows")
           => /\ DOMAIN Response(a).info = DOMAIN ConfigWindows(eww_config)
              /\ \A w \in DOMAIN Response(a).info :
                     Response(a).info[w] <=> w \in DOMAIN open_windows

\* PrintWindows is answered while the configuration defines a window that is
\* open and one that is not open although the store still holds a reference set
\* for it
C17_Witness ==
    /\ \E w \in DOMAIN ConfigWindows(eww_config) :
           w \in DOMAIN open_windows
    /\ \E w \in DOMAIN ConfigWindows(eww_config) :
           w \notin DOMAIN open_windows /\ w \in DOMAIN windows
    /\ handlers # {}
    /\ \E event \in Events("PrintWindows") : \E a \in {After(event)} :
           /\ event.sender
           /\ \E w \in DOMAIN Response(a).info : Response(a).info[w]
           /\ \E w \in DOMAIN Response(a).info : ~Response(a).info[w]

-----------------------------------------------------------------------------
(* C18 *)

\* C18: CloseWindow for a name that is not open answers Failure, issues no stop
\* and changes neither the registry, the reference sets nor the running
\* producers.
C18_CloseOfClosedWindowFails ==
    \A event \in Events("CloseWindow") :
        event.window_name \notin DOMAIN open_windows
        => \A a \in {After(event)} :
               /\ Cardinality(Responses(a.log)) = 1
               /\ Response(a).arg = "Failure"
               /\ AtOp(a.log, "stop") = {}
               /\ AtOp(a.log, "stop_all") = {}
               /\ AtOp(a.log, "close") = {}
               /\ a.open_windows = open_windows
               /\ a.windows = windows
               /\ a.handlers = handlers

\* CloseWindow names a window that is not open while the other window is open
\* with producers running and the store still holds a reference set for the
\* named window
C18_Witness ==
    \E event \in Events("CloseWindow") : \E a \in {After(event)} :
        /\ event.window_name \notin DOMAIN open_windows
        /\ event.window_name \in DOMAIN windows
        /\ windows[event.window_name] \cap handlers # {}
        /\ open_windows # EmptyMap
        /\ Answered(a, "Failure")

-----------------------------------------------------------------------------
(* C19 *)

\* C19: the answer of OpenWindow(N) agrees with the registry: after Success N is
\* registered with a live native window, after Failure N is not registered.  A
\* failed OpenWindow of a window that was open has removed and closed the old
\* instance and stopped the running variables only it used.
C19_OpenResponseMatchesRegistry ==
    \A event \in Events("OpenWindow") : \A a \in {After(event)} :
        /\ Cardinality(Responses(a.log)) = 1
        /\ (Response(a).arg = "Success")
           => /\ event.window_name \in DOMAIN a.open_windows
              /\ a.open_windows[event.window_name].gtk_window
              /\ \A i \in At(a.log, "insert", event.window_name) :
                     \A j \in Responses(a.log) : i < j
        /\ (Response(a).arg = "Failure")
           => /\ event.window_name \notin DOMAIN a.open_windows
              /\ At(a.log, "insert", event.window_name) = {}
              /\ (event.window_name \in DOMAIN open_windows)
                 => /\ At(a.log, "remove", event.window_name) # {}
                    /\ At(a.log, "close", event.window_name) # {}
                    /\ \A v \in ReferencedOnlyBy(event.window_name) :
                           At(a.log, "stop", v) # {} /\ v \notin a.handlers
                    /\ a.handlers = handlers \ ReferencedOnlyBy(event.window_name)

\* OpenWindow names an open window with a running variable of its own and fails:
\* the answer is Failure, the window is gone and the variable is stopped
C19_Witness ==
    \E event \in Events("OpenWindow") : \E a \in {After(event)} :
        /\ event.window_name \in DOMAIN open_windows
        /\ ReferencedOnlyBy(event.window_name) \cap handlers # {}
        /\ Answered(a, "Failure")
        /\ event.window_name \notin DOMAIN a.open_windows
        /\ a.handlers # handlers

-----------------------------------------------------------------------------
(* C20 *)

\* C20: after every handled command the store holds a reference set only for
\* windows that are registered as open.
C20_ReferenceSetsOnlyForOpenWindows ==
    pc = "Idle" => DOMAIN windows \subseteq DOMAIN open_windows

=============================================================================
